---- MODULE Spec2Model ----
(***************************************************************************)
(* notify-hub: the polling cycle of src/monitor_api.py.                    *)
(*                                                                         *)
(* run_once walks the configured targets in order.  For each target it     *)
(* fetches the items, loads the target's state file, keeps the items whose *)
(* id is not in seen_ids, rewrites the state file and posts up to three    *)
(* per-item messages and one summary to the enabled webhooks.  Any         *)
(* exception raised inside the try block is turned into one error message; *)
(* an exception raised by that error message leaves run_once.              *)
(***************************************************************************)
EXTENDS Integers, Sequences, FiniteSets, TLC

VARIABLES
    upstream,   \* target index -> what the provider answers: an error, or its entries
    file,       \* target index -> the content of .state/<id>.json
    usable,     \* destination -> notifiers.<dest> is set and its webhook URL is non-empty
    pc,         \* "idle": between two run_once calls, "run": inside run_once, "dead": process ended
    i,          \* index of the target the for loop of run_once is at
    clock,      \* the wall clock read by now_jst_str, one tick per run_once
    log,        \* the notify_all calls of the current run_once, in call order
    loc,        \* the locals of the most recent iteration of the for loop
    sameRuns,   \* run_once calls completed since the upstream last changed (history)
    firstClean, \* the first of those calls raised nothing and delivered every post (history)
    cls         \* importance_level: its arguments and, once it has run, what it computed

vars == <<upstream, file, usable, pc, i, clock, log, loc, sameRuns, firstClean, cls>>

----------------------------------------------------------------------------
(* Bounds of the model. *)

\* Length of the retained seen_ids list: the literal 300 of dedup[:300] in
\* run_once, scaled down so that fetches and lists longer than the cap, and
\* every iteration order of the seen set, are within reach of the check.
SeenCap == 3

\* Number of run_once calls explored (ticks of the clock).
MaxCycles == 2

\* Number of per-item messages per target and cycle (new_items[:3], > 3).
TopN == 3

Min(a, b) == IF a < b THEN a ELSE b

----------------------------------------------------------------------------
(* Configuration (cfg["targets"], cfg["notifiers"]) *)

\* cfg["targets"]: one feed that may serve more entries than the cap, one
\* target of a kind run_once does not know, one law-update target limited
\* to two items.
Targets ==
    << [id |-> "feed", kind |-> "rss",              max_items |-> SeenCap + 1],
       [id |-> "misc", kind |-> "atom_v9",          max_items |-> 2],
       [id |-> "laws", kind |-> "egov_law_updates", max_items |-> 2] >>

TIdx == 1..Len(Targets)

Dests == <<"slack", "discord">>

\* An item as the adapters build it: the id and the rest of its fields
\* (title, url, summary, published), abstracted to a revision number.
It(n, r) == [id |-> n, rev |-> r]

Window(a, n) == [k \in 1..n |-> It(a + k - 1, 1)]

\* What a provider may serve for a target: windows of a stream of entries,
\* and a feed that serves entry 1 twice, once with changed content.
Feeds(t) ==
    IF Targets[t].kind = "rss"
    THEN {Window(1, TopN), Window(1, SeenCap + 1), Window(TopN + 1, 1)}
         \cup {<<It(1, 2), It(3, 1), It(1, 1)>>}
    ELSE IF Targets[t].kind = "egov_law_updates"
    THEN {Window(1, 3)}
    ELSE {<<>>}

Served(entries) == [ok |-> TRUE, entries |-> entries]

\* The request fails (timeout, HTTP status, malformed XML): the adapter raises.
Err == [ok |-> FALSE, entries |-> <<>>]

Responses(t) ==
    {Served(f) : f \in Feeds(t)} \cup (IF Feeds(t) # {<<>>} THEN {Err} ELSE {})

----------------------------------------------------------------------------
(* Helpers of run_once *)

Take(s, n) == SubSeq(s, 1, Min(n, Len(s)))

Range(s) == {s[k] : k \in 1..Len(s)}

IdsOf(items) == [k \in 1..Len(items) |-> items[k].id]

\* for x in merged: if x not in dedup: dedup.append(x)
RECURSIVE DedupFrom(_, _)
DedupFrom(acc, s) ==
    IF s = <<>> THEN acc
    ELSE DedupFrom(IF Head(s) \in Range(acc) THEN acc ELSE Append(acc, Head(s)), Tail(s))

\* Mutant of Dedup: the membership test is dropped, every id is appended.
DedupKeepsAll(s) == s

Dedup(s) == DedupFrom(<<>>, s)

\* Mutant of Truncate: the slice keeps one id too many.
TruncateOffByOne(s) == Take(s, SeenCap + 1)

\* dedup[:300]
Truncate(s) == Take(s, SeenCap)

\* list(seen): the elements of a set in the order the interpreter iterates it,
\* which depends on the hashes of the ids and is not the insertion order.
RECURSIVE ListOfSet(_)
ListOfSet(S) ==
    IF S = {} THEN {<<>>}
    ELSE UNION {{<<x>> \o p : p \in ListOfSet(S \ {x})} : x \in S}

\* Mutant of KnownKind: the else branch is missing, any kind goes on to the
\* load and the filter.
KnownKindAny(t) == TRUE

\* Mutant of IsNew: an item whose content changed counts as new again.
IsNewOrChanged(it, seen) == it.id \notin seen \/ it.rev # 1

\* new_items = [it for it in items if it["id"] not in seen]
IsNew(it, seen) == it.id \notin seen

NewItems(items, seen) == SelectSeq(items, LAMBDA it : IsNew(it, seen))

\* fetch_rss: d.entries[:max_items]; fetch_egov_updates: items[:max_items]
Fetch(t) == Take(upstream[t].entries, Targets[t].max_items)

\* if kind == "rss" ... elif kind == "egov_law_updates" ... else: skip.
\* (No target of the configuration above is of kind "jgrants".)
KnownKind(t) == Targets[t].kind \in {"rss", "egov_law_updates"}

----------------------------------------------------------------------------
(* State files *)

Absent == [kind |-> "absent", seen_ids |-> <<>>, last_run |-> 0]
Bad    == [kind |-> "bad",    seen_ids |-> <<>>, last_run |-> 0]
Saved(ids, at) == [kind |-> "ok", seen_ids |-> ids, last_run |-> at]

\* State files found on disk when the process starts: none, or a record
\* left by an earlier run or edited by hand.
InitFiles(t) ==
    IF Targets[t].kind = "rss"
    THEN {Absent, Saved(<<2, 2, 1>>, 0), Saved(IdsOf(Window(2, SeenCap + 1)), 0)}
    ELSE {Absent}

----------------------------------------------------------------------------
(* Notifications *)

\* The destinations notify_all posts to, in the order it tries them.
UsableDests == SelectSeq(Dests, LAMBDA d : usable[d])

NoPosts == <<>>

ItemMsg(t, it) == [t |-> t, type |-> "item",  id |-> it.id, rev |-> it.rev, rest |-> 0, posts |-> NoPosts]
MoreMsg(t, n)  == [t |-> t, type |-> "more",  id |-> 0,     rev |-> 0,      rest |-> n, posts |-> NoPosts]
ErrorMsg(t)    == [t |-> t, type |-> "error", id |-> 0,     rev |-> 0,      rest |-> 0, posts |-> NoPosts]

\* Mutant of NotifyAll: the enabled flags and the URLs are not looked at,
\* every destination is posted to.
NotifyAllEveryDest(m, r) ==
    LET n == IF r = 0 THEN Len(Dests) ELSE r
    IN  [m EXCEPT !.posts = [j \in 1..n |-> [dest |-> Dests[j], ok |-> (r = 0 \/ j < r)]]]

\* notify_all(cfg, headline, body, url) when its r-th post raises (r = 0:
\* none raises): the posts before the r-th succeed, the r-th fails and the
\* destinations after it are not tried.
NotifyAll(m, r) ==
    LET ds == UsableDests
        n  == IF r = 0 THEN Len(ds) ELSE r
    IN  [m EXCEPT !.posts = [j \in 1..n |-> [dest |-> ds[j], ok |-> (r = 0 \/ j < r)]]]

\* The messages of one target: one per item of new_items[:3], then the
\* summary when len(new_items) > 3.
Messages(t, new) ==
    LET top == Take(new, TopN)
    IN  [k \in 1..Len(top) |-> ItemMsg(t, top[k])]
        \o (IF Len(new) > TopN THEN <<MoreMsg(t, Len(new) - TopN)>> ELSE <<>>)

\* The notify_all calls made for msgs when the f-th post of the whole series
\* raises (f = 0: none does): the call holding that post is the last one made.
Dispatch(msgs, f) ==
    LET n      == Len(UsableDests)
        kf     == IF f = 0 THEN Len(msgs) ELSE ((f - 1) \div n) + 1
    IN  [k \in 1..kf |-> NotifyAll(msgs[k], IF f = 0 \/ k < kf THEN 0 ELSE f - (kf - 1) * n)]

PostCount(msgs) == Len(msgs) * Len(UsableDests)

Clean(l) ==
    \A k \in 1..Len(l) :
        /\ l[k].type # "error"
        /\ \A j \in 1..Len(l[k].posts) : l[k].posts[j].ok

----------------------------------------------------------------------------
(* run_once, one iteration of `for target in cfg.get("targets", [])` *)

NoLoc == [t |-> 0, step |-> "none", items |-> <<>>, seen |-> {}, new |-> <<>>,
          before |-> Absent]

Loc(t, step, items, seen, new) ==
    [t |-> t, step |-> step, items |-> items, seen |-> seen, new |-> new,
     before |-> file[t]]

\* Mutant of LoadState: state_path drops the target id, every target loads
\* the file of the first one.
LoadStateShared(t) == file[1].seen_ids

\* load_state: {"seen_ids": []} when the file does not exist, else json.load.
LoadState(t) == file[t].seen_ids

\* seen = set(st.get("seen_ids", []))
SeenSet(t) == Range(LoadState(t))

\* merged = [it["id"] for it in items] + list(seen); dedup; dedup[:300]
NewSeenIds(items, order) == Truncate(Dedup(IdsOf(items) \o order))

\* except Exception as e: notify_all(error message); an exception raised by
\* that call is not caught: it leaves run_once and ends the process.
Handler(t, g) ==
    /\ log' = Append(log, NotifyAll(ErrorMsg(t), g))
    /\ IF g = 0
       THEN pc' = pc /\ i' = i + 1
       ELSE pc' = "dead" /\ i' = i

\* unknown kind: print and continue
SkipUnknown ==
    /\ pc = "run" /\ i \in TIdx
    /\ ~KnownKind(i)
    /\ i' = i + 1
    /\ loc' = Loc(i, "skip", <<>>, {}, <<>>)
    /\ UNCHANGED <<cls, upstream, file, usable, pc, clock, log, sameRuns, firstClean>>

\* the adapter raises
FetchFails ==
    /\ pc = "run" /\ i \in TIdx
    /\ KnownKind(i)
    /\ ~upstream[i].ok
    /\ \E g \in 0..Len(UsableDests) : Handler(i, g)
    /\ loc' = Loc(i, "fetch_error", <<>>, {}, <<>>)
    /\ UNCHANGED <<cls, upstream, file, usable, clock, sameRuns, firstClean>>

\* json.load raises on a state file that does not parse
LoadFails ==
    /\ pc = "run" /\ i \in TIdx
    /\ KnownKind(i)
    /\ upstream[i].ok
    /\ file[i].kind = "bad"
    /\ \E g \in 0..Len(UsableDests) : Handler(i, g)
    /\ loc' = Loc(i, "load_error", Fetch(i), {}, <<>>)
    /\ UNCHANGED <<cls, upstream, file, usable, clock, sameRuns, firstClean>>

\* Mutant of NoChanges: last_run is stamped and the state saved before the
\* test for new items.
NoChangesRewrites ==
    /\ pc = "run" /\ i \in TIdx
    /\ KnownKind(i)
    /\ upstream[i].ok
    /\ file[i].kind # "bad"
    /\ NewItems(Fetch(i), SeenSet(i)) = <<>>
    /\ i' = i + 1
    /\ file' = [file EXCEPT ![i] = Saved(LoadState(i), clock)]
    /\ loc' = Loc(i, "no_changes", Fetch(i), SeenSet(i), <<>>)
    /\ UNCHANGED <<cls, upstream, usable, pc, clock, log, sameRuns, firstClean>>

\* if not new_items: print "no changes"; continue
NoChanges ==
    /\ pc = "run" /\ i \in TIdx
    /\ KnownKind(i)
    /\ upstream[i].ok
    /\ file[i].kind # "bad"
    /\ NewItems(Fetch(i), SeenSet(i)) = <<>>
    /\ i' = i + 1
    /\ loc' = Loc(i, "no_changes", Fetch(i), SeenSet(i), <<>>)
    /\ UNCHANGED <<cls, upstream, file, usable, pc, clock, log, sameRuns, firstClean>>

\* new items: the state is saved, then the messages are sent; the f-th post
\* raising sends the iteration to the except clause.
Notify ==
    /\ pc = "run" /\ i \in TIdx
    /\ KnownKind(i)
    /\ upstream[i].ok
    /\ file[i].kind # "bad"
    /\ LET items == Fetch(i)
           seen  == SeenSet(i)
           new   == NewItems(items, seen)
           msgs  == Messages(i, new)
       IN  /\ new # <<>>
           /\ \E order \in ListOfSet(seen) :
                 file' = [file EXCEPT ![i] = Saved(NewSeenIds(items, order), clock)]
           /\ \E f \in 0..PostCount(msgs) :
                 IF f = 0
                 THEN /\ log' = log \o Dispatch(msgs, 0)
                      /\ pc' = pc /\ i' = i + 1
                      /\ loc' = Loc(i, "notified", items, seen, new)
                 ELSE /\ \E g \in 0..Len(UsableDests) :
                            /\ log' = Append(log \o Dispatch(msgs, f), NotifyAll(ErrorMsg(i), g))
                            /\ IF g = 0
                               THEN pc' = pc /\ i' = i + 1
                               ELSE pc' = "dead" /\ i' = i
                      /\ loc' = Loc(i, "post_error", items, seen, new)
    /\ UNCHANGED <<cls, upstream, usable, clock, sameRuns, firstClean>>

\* The process is killed while save_state writes: open(p, "w") has emptied
\* the file and json.dump has written none or a part of the record.
CrashInSave ==
    /\ pc = "run" /\ i \in TIdx
    /\ KnownKind(i)
    /\ upstream[i].ok
    /\ file[i].kind # "bad"
    /\ NewItems(Fetch(i), SeenSet(i)) # <<>>
    /\ file' = [file EXCEPT ![i] = Bad]
    /\ pc' = "dead"
    /\ loc' = Loc(i, "crash", Fetch(i), SeenSet(i), NewItems(Fetch(i), SeenSet(i)))
    /\ UNCHANGED <<cls, upstream, usable, i, clock, log, sameRuns, firstClean>>

\* The steps of run_once one notify_all call stands for: a per-item call is
\* preceded by importance_level on that item, inside the notify loop.
RECURSIVE CallSteps(_)
CallSteps(calls) ==
    IF calls = <<>> THEN <<>>
    ELSE (CASE Head(calls).type = "item"  -> <<"classify", "notify">>
            [] Head(calls).type = "more"  -> <<"notify">>
            [] Head(calls).type = "error" -> <<"error">>)
         \o CallSteps(Tail(calls))

\* The steps an iteration went through, in the order of the code: l is the
\* record of its locals, calls the notify_all calls it made.
StepsOf(l, calls) ==
    CASE l.step \in {"none", "skip"}         -> <<>>
      [] l.step = "fetch_error"               -> <<"fetch">> \o CallSteps(calls)
      [] l.step = "load_error"                -> <<"fetch", "load">> \o CallSteps(calls)
      [] l.step = "no_changes"                -> <<"fetch", "load", "filter">>
      [] l.step = "crash"                     -> <<"fetch", "load", "filter", "save">>
      [] l.step = "interrupt"                 ->
            IF l.new = <<>> THEN <<>> ELSE <<"fetch", "load", "filter", "save">>
      [] l.step \in {"notified", "post_error"} ->
            <<"fetch", "load", "filter", "save">> \o CallSteps(calls)

\* The process is told to stop (SIGINT, SIGTERM) inside run_once.  main
\* installs no handler and `except Exception` does not catch
\* KeyboardInterrupt: the process ends where it stands, here at the top of
\* the iteration, or between save_state and the first notify_all call.
Interrupt ==
    /\ pc = "run" /\ i \in TIdx
    /\ pc' = "dead"
    /\ \/ /\ loc' = Loc(i, "interrupt", <<>>, {}, <<>>)
          /\ file' = file
       \/ /\ KnownKind(i)
          /\ upstream[i].ok
          /\ file[i].kind # "bad"
          /\ NewItems(Fetch(i), SeenSet(i)) # <<>>
          /\ \E order \in ListOfSet(SeenSet(i)) :
                file' = [file EXCEPT ![i] = Saved(NewSeenIds(Fetch(i), order), clock)]
          /\ loc' = Loc(i, "interrupt", Fetch(i), SeenSet(i), NewItems(Fetch(i), SeenSet(i)))
    /\ UNCHANGED <<cls, upstream, usable, i, clock, log, sameRuns, firstClean>>

----------------------------------------------------------------------------
(* importance_level *)

\* Texts are sequences of characters; a character outside ASCII is written
\* as its code point ("U7DCA").

CriticalKeywords ==
    { <<"U7DCA", "U6025">>,
      <<"c", "r", "i", "t", "i", "c", "a", "l">>,
      <<"r", "c", "e">>,
      <<"r", "e", "m", "o", "t", "e", " ", "c", "o", "d", "e">>,
      <<"U6A29", "U9650", "U6607", "U683C">>,
      <<"U30BC", "U30ED", "U30C7", "U30A4">>,
      <<"0", "d", "a", "y">> }

VulnKeywords ==
    { <<"U8106", "U5F31", "U6027">>,
      <<"x", "s", "s">>,
      <<"c", "s", "r", "f">>,
      <<"s", "q", "l">>,
      <<"U8A8D", "U8A3C">>,
      <<"U6F0F", "U3048", "U3044">>,
      <<"U30D1", "U30B9", "U30C8", "U30E9", "U30D0", "U30FC", "U30B5", "U30EB">> }

GrantKeywords ==
    { <<"i", "t">>,
      <<"d", "x">>,
      <<"U8A2D", "U5099">>,
      <<"U7701", "U529B", "U5316">> }

\* The label fetch_jgrants writes before subsidy_max_limit in the summary
\* (U+4E0A U+9650 and a colon).
UpperLimitLabel == <<"U4E0A", "U9650", ":">>

LargeAmounts ==
    { <<"1", "0", "0", "0", "0", "0", "0", "0">>,
      <<"5", "0", "0", "0", "0", "0", "0">>,
      <<"3", "0", "0", "0", "0", "0", "0">> }

\* Titles and summaries the classifier is run on.
Titles ==
    { <<"C", "r", "i", "t", "i", "c", "a", "l", ":", " ", "r", "e", "m", "o", "t", "e", " ", "c", "o", "d", "e", " ", "e", "x", "e", "c", "u", "t", "i", "o", "n", " ", "f", "o", "u", "n", "d">>,
      <<"l", "a", "b", "o", "r", " ", "r", "e", "g", "u", "l", "a", "t", "i", "o", "n", " ", "u", "p", "d", "a", "t", "e">>,
      <<"X", "S", "S", " ", "f", "i", "x">>,
      <<"D", "X", " ", "s", "u", "b", "s", "i", "d", "y">>,
      <<"r", "e", "l", "e", "a", "s", "e", " ", "n", "o", "t", "e", "s">>,
      <<"R", "e", "s", "o", "u", "r", "c", "e", " ", "l", "i", "s", "t">>,
      <<" ", "r", "e", "m", "o", "t", "e", "\n", "c", "o", "d", "e", " ">>,
      <<"U7DCA", "U6025", " ", "n", "o", "t", "i", "c", "e">> }

Summaries ==
    { <<>>,
      <<"U4E0A", "U9650", ":", "5", "0", "0", "0", "0", "0", "0">>,
      <<"U4E0A", "U9650", ":", "2", "0", "0", "0", "0", "0">>,
      <<"5", "0", "0", "0", "0", "0", "0", " ", "v", "i", "e", "w", "s">>,
      <<"s", "q", "l", " ", "i", "n", "j", "e", "c", "t", "i", "o", "n">> }

KeywordLists == { <<>>, <<<<"L", "a", "b", "o", "r">>>>, <<<<"L", "a", "b", "o", "r">>, <<"c", "o", "d", "e">>>> }

Kinds == {"rss", "egov_law_updates", "jgrants", "atom_v9"}

\* str.lower on the letters the texts above use
ToLower == ("C" :> "c") @@ ("R" :> "r") @@ ("X" :> "x") @@ ("S" :> "s") @@ ("D" :> "d") @@ ("L" :> "l") @@ ("I" :> "i")

Lower(s) == [k \in 1..Len(s) |-> IF s[k] \in DOMAIN ToLower THEN ToLower[s[k]] ELSE s[k]]

Whitespace == {" ", "\t", "\n", "\r"}

\* str.strip
RECURSIVE Strip(_)
Strip(s) ==
    IF s = <<>> THEN s
    ELSE IF Head(s) \in Whitespace THEN Strip(Tail(s))
    ELSE IF s[Len(s)] \in Whitespace THEN Strip(SubSeq(s, 1, Len(s) - 1))
    ELSE s

\* safe_text: str(s).replace("\r", " ").replace("\n", " ").strip()
SafeText(s) == Strip([k \in 1..Len(s) |-> IF s[k] \in {"\r", "\n"} THEN " " ELSE s[k]])

\* k in text
Contains(text, kw) ==
    \E k \in 0..(Len(text) - Len(kw)) : SubSeq(text, k + 1, k + Len(kw)) = kw

\* any(k in text for k in kws)
AnyIn(kws, text) == \E kw \in kws : Contains(text, kw)

\* text = f"{title} {summary}", both lowered
TextOf(item) == Lower(SafeText(item.title)) \o <<" ">> \o Lower(SafeText(item.summary))

Rated(level, comment) == [level |-> level, comment |-> comment]

\* the defaults and the if / elif on the security keywords
SecurityRule(text) ==
    IF AnyIn(CriticalKeywords, text) THEN Rated("S", "urgent")
    ELSE IF AnyIn(VulnKeywords, text) THEN Rated("A", "security")
    ELSE Rated("C", "default")

\* Mutant of LawRule: the level is set to A without looking at the running level.
LawRuleLowers(r, text, target) ==
    IF /\ target.kind = "egov_law_updates"
       /\ \E k \in 1..Len(target.important_keywords) :
             Contains(text, Lower(target.important_keywords[k]))
    THEN Rated("A", "law")
    ELSE r

\* Law updates: boost by keywords
LawRule(r, text, target) ==
    IF /\ target.kind = "egov_law_updates"
       /\ \E k \in 1..Len(target.important_keywords) :
             Contains(text, Lower(target.important_keywords[k]))
    THEN Rated(IF r.level # "S" THEN "A" ELSE r.level, "law")
    ELSE r

\* Grants: level = "B" if level == "C" else level
GrantKeywordRule(r, text, target) ==
    IF target.kind = "jgrants" /\ AnyIn(GrantKeywords, text)
    THEN Rated(IF r.level = "C" THEN "B" ELSE r.level, r.comment)
    ELSE r

\* Mutant of GrantAmountRule: the level is set to A also when it is S.
GrantAmountRuleLowers(r, item, target) ==
    IF /\ target.kind = "jgrants"
       /\ Contains(SafeText(item.summary), UpperLimitLabel)
       /\ AnyIn(LargeAmounts, SafeText(item.summary))
    THEN Rated("A", "grant")
    ELSE r

\* Grants: the summary states an upper limit and holds a large amount
GrantAmountRule(r, item, target) ==
    IF /\ target.kind = "jgrants"
       /\ Contains(SafeText(item.summary), UpperLimitLabel)
       /\ AnyIn(LargeAmounts, SafeText(item.summary))
    THEN Rated(IF r.level # "S" THEN "A" ELSE r.level, "grant")
    ELSE r

\* emoji = {"S": ..., "A": ..., "B": ..., "C": ...}[level]
Emoji == [S |-> "red", A |-> "orange", B |-> "yellow", C |-> "blue"]

\* importance_level(item, target): the level after each rule, in rule order,
\* and the value returned.
ImportanceLevel(item, target) ==
    LET text == TextOf(item)
        r1   == SecurityRule(text)
        r2   == LawRule(r1, text, target)
        r3   == GrantKeywordRule(r2, text, target)
        r4   == GrantAmountRule(r3, item, target)
    IN  [trace   |-> <<"C", r1.level, r2.level, r3.level, r4.level>>,
         level   |-> r4.level,
         comment |-> <<Emoji[r4.level], r4.comment>>]

NoResult == [trace |-> <<>>, level |-> "", comment |-> <<>>]

NoCls == [item   |-> [title |-> <<>>, summary |-> <<>>],
          target |-> [kind |-> "rss", important_keywords |-> <<>>],
          done   |-> FALSE,
          out    |-> NoResult]

\* level, ai_comment = importance_level(it, target)
Classify ==
    /\ ~cls.done
    /\ cls' = [cls EXCEPT !.done = TRUE, !.out = ImportanceLevel(cls.item, cls.target)]
    /\ UNCHANGED <<upstream, file, usable, pc, i, clock, log, loc, sameRuns, firstClean>>

----------------------------------------------------------------------------
(* main: run_once once, or again after every sleep *)

StartCycle ==
    /\ pc = "idle"
    /\ clock < MaxCycles
    /\ pc' = "run"
    /\ i' = 1
    /\ clock' = clock + 1
    /\ log' = <<>>
    /\ loc' = NoLoc
    /\ UNCHANGED <<cls, upstream, file, usable, sameRuns, firstClean>>

\* the for loop is exhausted: "run_once end"
EndCycle ==
    /\ pc = "run"
    /\ i = Len(Targets) + 1
    /\ pc' = "idle"
    /\ sameRuns' = Min(sameRuns + 1, 2)
    /\ firstClean' = IF sameRuns = 0 THEN Clean(log) ELSE firstClean
    /\ UNCHANGED <<cls, upstream, file, usable, i, clock, log, loc>>

\* the operator starts the program again
Restart ==
    /\ pc = "dead"
    /\ pc' = "idle"
    /\ sameRuns' = 0
    /\ firstClean' = FALSE
    /\ UNCHANGED <<cls, upstream, file, usable, i, clock, log, loc>>

\* The provider's answer changes.  A change during a cycle has the effect of
\* one before it (target not yet fetched) or after it (already fetched).
ChangeUpstream ==
    /\ pc = "idle"
    /\ clock < MaxCycles
    /\ \E t \in TIdx : \E r \in Responses(t) :
          /\ r # upstream[t]
          /\ upstream' = [upstream EXCEPT ![t] = r]
    /\ sameRuns' = 0
    /\ firstClean' = FALSE
    /\ UNCHANGED <<cls, file, usable, pc, i, clock, log, loc>>

Init ==
    /\ upstream \in {u \in [TIdx -> UNION {Responses(t) : t \in TIdx}] :
                        \A t \in TIdx : u[t] \in Responses(t)}
    /\ file \in {f \in [TIdx -> UNION {InitFiles(t) : t \in TIdx}] :
                    \A t \in TIdx : f[t] \in InitFiles(t)}
    /\ usable \in [{"slack", "discord"} -> BOOLEAN]
    /\ pc = "idle"
    /\ i = 1
    /\ clock = 0
    /\ log = <<>>
    /\ loc = NoLoc
    /\ sameRuns = 0
    /\ firstClean = FALSE
    /\ cls = NoCls

Next ==
    \/ StartCycle
    \/ SkipUnknown
    \/ FetchFails
    \/ LoadFails
    \/ NoChanges
    \/ Notify
    \/ CrashInSave
    \/ Interrupt
    \/ EndCycle
    \/ Restart
    \/ ChangeUpstream

Spec == Init /\ [][Next]_vars

\* importance_level on its own: every title, summary, kind and keyword list
\* above, outside any cycle.
InitClassify ==
    /\ upstream = [t \in TIdx |-> Served(<<>>)]
    /\ file = [t \in TIdx |-> Absent]
    /\ usable = [d \in {"slack", "discord"} |-> FALSE]
    /\ pc = "idle"
    /\ i = 1
    /\ clock = 0
    /\ log = <<>>
    /\ loc = NoLoc
    /\ sameRuns = 0
    /\ firstClean = FALSE
    /\ cls \in {[NoCls EXCEPT !.item = [title |-> ti, summary |-> su],
                              !.target = [kind |-> kd, important_keywords |-> kws]] :
                  ti \in Titles, su \in Summaries, kd \in Kinds, kws \in KeywordLists}

NextClassify == Classify

SpecClassify == InitClassify /\ [][NextClassify]_vars

----------------------------------------------------------------------------
(* Properties *)

\* The iteration loc describes got past the filter with new items: the state
\* was saved and the messages were started.
SavedStep == loc.step \in {"notified", "post_error"}

\* The notify_all calls of the current cycle made for target t.
CallsFor(t) == SelectSeq(log, LAMBDA e : e.t = t)

NoDuplicates(s) == \A a, b \in 1..Len(s) : s[a] = s[b] => a = b

\* A state file written by run_once (last_run is a clock reading, >= 1).
WrittenByRun(t) == file[t].kind = "ok" /\ file[t].last_run > 0

\* The state the iteration loaded is one the program itself produced: no
\* file yet, or a file written by an earlier run_once.
LoadedOwnState == loc.before.kind = "absent" \/ loc.before.last_run > 0

\* C1: idempotence.  When two run_once calls complete one after the other on
\* the same upstream answers, every fetch succeeding (and neither call
\* raising anything or failing a delivery), the second call makes no
\* notify_all call.
C1_SecondRunSilent ==
    (/\ pc = "idle"
     /\ sameRuns = 2
     /\ firstClean
     /\ Clean(log)
     /\ \A t \in TIdx : upstream[t].ok)
    => log = <<>>

\* C2: dedup correctness.  A fetched item whose id is in the seen_ids the
\* iteration loaded is not in new_items and gets no per-item message,
\* whatever its other fields are.
C2_SeenIdsExcluded ==
    LET old == Range(loc.before.seen_ids)
    IN  /\ \A k \in 1..Len(loc.new) : loc.new[k].id \notin old
        /\ \A k \in 1..Len(log) :
              (log[k].t = loc.t /\ log[k].type = "item") => log[k].id \notin old

\* C2 witness: an iteration found new items while the feed also held an item
\* with a seen id and changed content.
C2_Witness ==
    /\ loc.step = "notified"
    /\ \E k \in 1..Len(loc.items) :
          /\ loc.items[k].rev # 1
          /\ loc.items[k].id \in Range(loc.before.seen_ids)

\* C3: retention bound.  Every state file run_once has written holds at most
\* SeenCap ids.
C3_RetentionBound ==
    \A t \in TIdx : WrittenByRun(t) => Len(file[t].seen_ids) <= SeenCap

\* C3 witness: a save that had to cut: the list loaded was longer than the
\* cap and the list saved is exactly at the cap.
C3_Witness ==
    /\ SavedStep
    /\ Len(loc.before.seen_ids) > SeenCap
    /\ WrittenByRun(loc.t)
    /\ Len(file[loc.t].seen_ids) = SeenCap

\* C4: whenever run_once saves a target's state, the id of every item fetched
\* in that iteration is in the saved seen_ids (stated for iterations that
\* loaded a state the program produced).
C4_FreshIdsKept ==
    (SavedStep /\ LoadedOwnState) => Range(IdsOf(loc.items)) \subseteq Range(file[loc.t].seen_ids)

\* C5: the saved seen_ids is the first SeenCap entries of the fetched ids
\* (first occurrences, fetch order) followed by the previously persisted ids
\* not among them, in the order they had in the persisted list (stated for
\* iterations that loaded a state the program produced).
C5_UpdatePolicy ==
    (SavedStep /\ LoadedOwnState) =>
        file[loc.t].seen_ids
            = Take(DedupFrom(<<>>, IdsOf(loc.items) \o loc.before.seen_ids), SeenCap)

\* C6: no id occurs twice in a seen_ids list run_once has written.
C6_NoDuplicates ==
    \A t \in TIdx : WrittenByRun(t) => NoDuplicates(file[t].seen_ids)

\* C6 witness: a save whose fetch repeated an id and whose loaded list
\* repeated an id.
C6_Witness ==
    /\ SavedStep
    /\ WrittenByRun(loc.t)
    /\ ~NoDuplicates(IdsOf(loc.items))
    /\ ~NoDuplicates(loc.before.seen_ids)

\* C7: batching.  For n >= 1 new items run_once makes exactly min(n, 3)
\* per-item notify_all calls, for the first new items in fetch order, then
\* exactly one summary call stating n - 3 if and only if n > 3.
C7_Batching ==
    SavedStep =>
        LET es == CallsFor(loc.t)
            n  == Len(loc.new)
            m  == Min(n, TopN)
        IN  /\ Len(es) = m + (IF n > TopN THEN 1 ELSE 0)
            /\ \A k \in 1..m :
                  /\ es[k].type = "item"
                  /\ es[k].id = loc.new[k].id
                  /\ es[k].rev = loc.new[k].rev
            /\ n > TopN => (es[m + 1].type = "more" /\ es[m + 1].rest = n - TopN)

\* C8: isolation of a fetch failure.  A target whose fetch raises gets
\* exactly one error message, its state file is unchanged, and the loop goes
\* on to the targets after it.
C8_FetchFailureIsolated ==
    loc.step = "fetch_error" =>
        /\ Len(CallsFor(loc.t)) = 1
        /\ CallsFor(loc.t)[1].type = "error"
        /\ file[loc.t] = loc.before
        /\ pc # "dead"
        /\ i > loc.t

\* C9: a failed delivery blocks nothing.  Every per-item or summary message
\* is tried on every usable destination, and every message of a target with
\* new items is handed to notify_all.
C9_SinkFailureBlocksNothing ==
    /\ \A k \in 1..Len(log) :
          log[k].type # "error" => Len(log[k].posts) = Len(UsableDests)
    /\ SavedStep =>
          Len(SelectSeq(CallsFor(loc.t), LAMBDA e : e.type # "error"))
              = Min(Len(loc.new), TopN) + (IF Len(loc.new) > TopN THEN 1 ELSE 0)

\* C10: an unreadable state file degrades to an empty seen set.  The target
\* is not failed: every fetched item is new and no error message is sent
\* for the load.
C10_UnreadableStateIsEmpty ==
    (loc.before.kind = "bad" /\ loc.step \notin {"none", "skip", "fetch_error"})
    => (loc.step # "load_error" /\ loc.new = loc.items)

\* C11: crash-atomic save.  After a crash during save_state the state file
\* holds the complete previous state or the complete new state, never an
\* empty or truncated record.
C11_SaveIsCrashAtomic ==
    loc.step = "crash" =>
        \/ file[loc.t] = loc.before
        \/ (WrittenByRun(loc.t) /\ file[loc.t].last_run = clock)

\* C12: a no-change iteration is a no-op on the state and sends nothing: a
\* step that ends an iteration with "no changes" leaves every state file
\* and the notification log as they were, and a state file's seen_ids or
\* last_run change only in an iteration of its own target that found at
\* least one new item.
C12_NoChangeFrame ==
    [][ /\ (loc'.step = "no_changes" /\ i' # i) => (file' = file /\ log' = log)
        /\ \A t \in TIdx :
              (file'[t].last_run # file[t].last_run \/ file'[t].seen_ids # file[t].seen_ids)
              => (loc'.t = t /\ loc'.new # <<>>) ]_vars

\* C12 witness: an iteration fetched items, found them all in a state file
\* written earlier and went on.
C12_Witness ==
    /\ loc.step = "no_changes"
    /\ loc.items # <<>>
    /\ loc.before.kind = "ok"
    /\ file[loc.t] = loc.before
    /\ CallsFor(loc.t) = <<>>

\* The total order of the levels, S > A > B > C.
Rank == [C |-> 0, B |-> 1, A |-> 2, S |-> 3]

\* C13: severity monotonicity.  The running level after each rule of
\* importance_level is never lower than the level before that rule, and the
\* level returned is one of S, A, B, C (with that level's marker).
C13_SeverityMonotone ==
    cls.done =>
        /\ \A k \in 1..(Len(cls.out.trace) - 1) :
              Rank[cls.out.trace[k]] <= Rank[cls.out.trace[k + 1]]
        /\ cls.out.level \in {"S", "A", "B", "C"}
        /\ cls.out.comment[1] = Emoji[cls.out.level]

\* C13 witness: a grants item that two rules raise in turn, C to B on a
\* relevance keyword and B to A on the amount.
C13_Witness ==
    /\ cls.done
    /\ cls.out.trace = <<"C", "C", "C", "B", "A">>

\* C14: critical keywords take precedence.  When the lowered title and
\* summary contain a critical keyword, importance_level returns S, for
\* every kind, keyword list and other content.
C14_CriticalIsS ==
    (cls.done /\ \E kw \in CriticalKeywords : Contains(TextOf(cls.item), kw))
    => cls.out.level = "S"

\* C14 witness: a critical grants item whose summary also states a large
\* amount, so that the last rule fires on a level that is S.
C14_Witness ==
    /\ cls.done
    /\ cls.target.kind = "jgrants"
    /\ cls.out.level = "S"
    /\ cls.out.comment[2] = "grant"

\* The number of notify_all calls a target with n new items is due.
DueCalls(n) == Min(n, TopN) + (IF n > TopN THEN 1 ELSE 0)

\* C15: a destination that is disabled or has no URL is skipped and is no
\* error.  No call posts to such a destination; an iteration in which no
\* post raised made one notify_all call per message, however many
\* destinations are usable; and with no usable destination an iteration
\* with new items raises nothing, makes its calls without a post or an
\* error message, and the loop goes on.
C15_MissingDestinationsSkipped ==
    /\ \A k \in 1..Len(log) :
          /\ Len(log[k].posts) <= Len(UsableDests)
          /\ \A j \in 1..Len(log[k].posts) : usable[log[k].posts[j].dest]
    /\ loc.step = "notified" => Len(CallsFor(loc.t)) = DueCalls(Len(loc.new))
    /\ (UsableDests = <<>> /\ SavedStep) =>
          /\ loc.step = "notified"
          /\ \A k \in 1..Len(CallsFor(loc.t)) :
                CallsFor(loc.t)[k].type # "error" /\ CallsFor(loc.t)[k].posts = <<>>
          /\ pc # "dead"
          /\ i > loc.t

\* C15 witness: no destination is usable and an iteration with more than
\* three new items made its four calls.
C15_Witness ==
    /\ UsableDests = <<>>
    /\ loc.step = "notified"
    /\ Len(loc.new) > TopN
    /\ Len(CallsFor(loc.t)) = TopN + 1

\* The steps of the iteration loc describes.
Steps == StepsOf(loc, CallsFor(loc.t))

Positions(name) == {k \in 1..Len(Steps) : Steps[k] = name}

\* C16: step order and no partial update.  In an iteration with new items
\* every new item is classified before the state is saved and the state is
\* saved before the first notification; an error raised before the state
\* update leaves the state file as it was and the loop goes on to the next
\* target.
C16_StepOrder ==
    /\ \A sv \in Positions("save") :
          /\ Cardinality({k \in Positions("classify") : k < sv}) = Len(loc.new)
          /\ \A k \in Positions("notify") : sv < k
    /\ loc.step \in {"fetch_error", "load_error"} =>
          /\ file[loc.t] = loc.before
          /\ pc # "dead"
          /\ i > loc.t

\* C17: per-target state independence.  An iteration loads the state file
\* of its own target and no other, a state file changes only in an
\* iteration of its own target, and what is then written is made of that
\* target's fetched ids and previously seen ids only.
C17_StateIndependence ==
    [][ /\ loc' # loc /\ loc'.t \in TIdx =>
              /\ loc'.before = file[loc'.t]
              /\ loc'.step \in {"no_changes", "notified", "post_error", "crash"}
                    => loc'.seen = Range(file[loc'.t].seen_ids)
        /\ \A t \in TIdx : file'[t] # file[t] =>
              /\ loc'.t = t
              /\ \A u \in TIdx \ {t} : file'[u] = file[u]
              /\ Range(file'[t].seen_ids)
                    \subseteq Range(IdsOf(Fetch(t))) \cup Range(file[t].seen_ids) ]_vars

\* C17 witness: the law target's file was written while the feed target
\* holds a file with other ids, written in the same cycle.
C17_Witness ==
    /\ loc.t = 3
    /\ loc.step = "notified"
    /\ WrittenByRun(1) /\ file[1].last_run = clock
    /\ WrittenByRun(3) /\ file[3].last_run = clock
    /\ Range(file[1].seen_ids) # Range(file[3].seen_ids)

\* C18: cooperative shutdown.  A stop requested while run_once is running
\* takes effect only once the cycle is complete: the process never ends
\* on such a request with targets of the cycle left, nor inside an
\* iteration.
C18_CycleCompletesOnShutdown ==
    loc.step = "interrupt" => i = Len(Targets) + 1

\* C19: a target of an unknown kind is skipped.  Its iteration does not
\* fetch, sends nothing, leaves its state file alone, and the loop goes on
\* to the next target.
C19_UnknownKindSkipped ==
    (loc.t \in TIdx
     /\ Targets[loc.t].kind \notin {"rss", "egov_law_updates", "jgrants"}
     /\ loc.step # "interrupt")
    => /\ loc.step = "skip"
       /\ Steps = <<>>
       /\ CallsFor(loc.t) = <<>>
       /\ file[loc.t] = loc.before
       /\ pc = "run"
       /\ i = loc.t + 1

\* C19 witness: the unknown target was skipped after the target before it
\* had sent messages, and the loop stands at the target after it.
C19_Witness ==
    /\ loc.step = "skip"
    /\ log # <<>>
    /\ pc = "run"
    /\ i = loc.t + 1
    /\ i \in TIdx

\* C20: within one cycle and one target each item id gets at most one
\* per-item message, also when the fetch holds several items with one id.
C20_OneMessagePerId ==
    \A a, b \in 1..Len(log) :
        (/\ log[a].type = "item" /\ log[b].type = "item"
         /\ log[a].t = log[b].t
         /\ log[a].id = log[b].id)
        => a = b

====
